---- MODULE Spec2Model ----
(***************************************************************************)
(* Activity lifecycle of the sales CRM: the activities table and the       *)
(* operations that write it, the completion / mandatory-next-activity      *)
(* workflow of ActivityModal, the manager's EditActivityModal, the         *)
(* daily-call generator and the dashboard bucket queries.                  *)
(*                                                                         *)
(* Time is counted in ticks; TicksPerDay ticks make one UTC day.  The      *)
(* browser's local clock runs clock.tz ticks behind UTC, so that           *)
(* Date.getDay() / local midnight (local) and toISOString() (UTC) are      *)
(* two different conversions of the same instant.                          *)
(*                                                                         *)
(* A text (comment, reason, description) is abstracted to its length and   *)
(* the length of its trim(): [null, raw, trimmed].                         *)
(***************************************************************************)
EXTENDS Integers, Sequences, FiniteSets, Bags, TLC

VARIABLES
    activities,   \* the activities table: id (index) -> row
    clock,        \* [now, tz, horizon]: the instant, the browser's offset, the last instant explored
    variant,      \* which ActivityModal implementation is mounted: "ref" | "portal"
    modal,        \* state of the mounted ActivityModal (and of its in-flight mutation)
    form,         \* state of the next-activity form and of its create request
    edit,         \* state of the manager's EditActivityModal
    gen,          \* the invocations of useGenerateDailyCalls: process -> state
    dash,         \* result of the last dashboard query
    toast,        \* kind of the last toast shown (in whichever session)
    logs,         \* the activity_logs table: a set of [action_type, entity_id, ...]
    card          \* state of the ActivityItem card on a manager's dashboard

vars == <<activities, clock, variant, modal, form, edit, gen, dash, toast, logs, card>>

-----------------------------------------------------------------------------
(* Bounds of the model *)

MaxActivities == 2     \* rows the table may hold
MaxElapsed == 1        \* ticks the clock may advance during a run
MaxPad == 1            \* characters a text may be longer than the minimum
MaxProspects == 4      \* prospects in phase 'Prospección'
MaxInvocations == 2    \* invocations of the daily-call generation
MaxCreated == 1        \* activities created by hand beside the generation
MaxOffset == 1         \* ticks the browser's clock may be behind UTC
MaxSeeded == 4         \* rows of the table when the dashboard is opened
MaxMutations == 2      \* quick mutations a card carries out
MaxAudited == 4        \* rows of activity_logs when the rows are counted

(* Program constants *)

minCommentLength == 10       \* ActivityModal / EditActivityModal
minDescriptionLength == 5    \* MandatoryNextActivityModal / NextActivityPortal
MaxDailyCalls == 3           \* LIMIT 3 / slice(0, 3)
PendingWindowDays == 7       \* get_prospects_for_daily_calls
CompletedWindowDays == 3
SystemCallWindowDays == 2
WeekWindowDays == 7          \* useWeekActivities
NewCallsLimit == 3           \* useNewCallsActivities .limit(3)

(* Granularity of the clock *)

TicksPerDay == 2
DaysPerWeek == 7

-----------------------------------------------------------------------------
(* Users, prospects, enums *)

Salespersons == {"s1", "s2"}
Managers == {"m1"}
Users == Salespersons \cup Managers
NoUser == "none"                    \* assigned_to IS NULL

Role(u) == IF u \in Managers THEN "manager" ELSE "salesperson"

NoProspect == 0                     \* prospect_id IS NULL
NoTime == -1                        \* completed_at IS NULL
NoDate == -1000                     \* scheduledDate === undefined

ActivityStatus == {"pending", "completed", "blocked"}
ProspectTypes == {"Llamada", "Seguimiento"}        \* ACTIVITY_TYPES without 'General'
NoType == ""

-----------------------------------------------------------------------------
(* Texts *)

Text(r, t) == [null |-> FALSE, raw |-> r, trimmed |-> t]
NullText == [null |-> TRUE, raw |-> 0, trimmed |-> 0]
EmptyText == Text(0, 0)

\* String.prototype.trim(): what is left has the trimmed length and no padding
Trim(t) == Text(t.trimmed, t.trimmed)

-----------------------------------------------------------------------------
(* Clock *)

Now == clock.now

\* new Date().toISOString().split('T')[0], CURRENT_DATE: the UTC day
UtcDay(t) == t \div TicksPerDay

\* the browser's local day: getDay(), setHours(0,0,0,0), format(d, 'yyyy-MM-dd')
LocalDay(t) == (t - clock.tz) \div TicksPerDay

\* Date.getDay(): 0 = Sunday ... 6 = Saturday (day 0 of the model is a Sunday)
DayOfWeek(d) == d % DaysPerWeek

\* timestamptz >= 'yyyy-MM-dd': not before the midnight that starts UTC day d
OnOrAfterDay(t, d) == t >= d * TicksPerDay

\* the clock advances by one tick
Tick ==
    /\ clock.now < clock.horizon
    /\ clock' = [clock EXCEPT !.now = @ + 1]
    /\ UNCHANGED <<activities, variant, modal, form, edit, gen, dash, toast, logs, card>>

-----------------------------------------------------------------------------
(* The activities table *)

Ids == 1..Len(activities)

Row(p, ty, d, st, u, by, at) ==
    [ prospect_id |-> p, activity_type |-> ty, scheduled_date |-> d,
      status |-> st, completion_comment |-> NullText, block_reason |-> NullText,
      assigned_to |-> u, created_by |-> by, completed_at |-> NoTime,
      created_at |-> at, notes |-> NullText ]

\* supabase.from('activities').insert(row): created_at defaults to now()
Insert(tbl, row) == Append(tbl, [row EXCEPT !.created_at = Now])

\* the position a DELETE leaves behind: ids are positions in the table, and
\* no query matches the columns of a deleted row
Deleted == Row(NoProspect, NoType, NoDate, "deleted", NoUser, "deleted", 0)

\* .update(...).eq('id', id): the rows the update reaches
Exists(a) == a \in Ids /\ activities[a] # Deleted

LogEntry(action, id) == [action_type |-> action, entity_id |-> id]

\* a trigger function with the branches for INSERT and for completed only
LogCreateAndCompleteOnly(op, old, new, id) ==
    IF op = "INSERT" THEN { LogEntry("create", id) }
    ELSE IF new.status = "completed" /\ old.status # "completed"
         THEN { LogEntry("complete", id) }
    ELSE {}

\* the trigger function log_activity_change(): the rows it adds to activity_logs
log_activity_change(op, old, new, id) ==
    IF op = "INSERT" THEN { LogEntry("create", id) }
    ELSE IF new.status = "completed" /\ old.status # "completed"
         THEN { LogEntry("complete", id) }
    ELSE IF new.status = "blocked" /\ old.status # "blocked"
         THEN { LogEntry("block", id) }
    ELSE {}

-----------------------------------------------------------------------------
(* ActivityModal: the completion workflow.                                 *)
(*   variant "ref"    : components/activities/ActivityModal.tsx with       *)
(*                      MandatoryNextActivityModal                          *)
(*   variant "portal" : the ActivityModal that opens NextActivityPortal    *)
(*                      before the completion mutation has settled          *)
(*   variant "callback" : the ActivityModal that reports the completion to *)
(*                      its host (onActivityCompleted), which opens         *)
(*                      NextActivityPortal; showNext / completedData are    *)
(*                      then the host's isOpen / data                       *)

ModalIdle ==
    [ activity |-> 0, prospect_id |-> NoProspect, assigned_to |-> NoUser, user |-> "s1",   \* user: who is signed in
      open |-> FALSE, modalState |-> "buttons", comment |-> EmptyText,
      showNext |-> FALSE, completedData |-> FALSE,
      pc |-> "idle", mutation |-> "none", request |-> "none", payload |-> EmptyText,
      resetTimer |-> FALSE, followUps |-> {} ]

FormIdle ==
    [ activityType |-> NoType, scheduledDate |-> NoDate, description |-> EmptyText,
      showCloseWarning |-> FALSE ]

\* the create mutation of the next-activity form outlives the form's fields
CreateIdle == [ state |-> "none", row |-> Row(NoProspect, NoType, NoDate, "pending", NoUser, "salesperson", 0) ]

\* <Dialog open={open && !showNextActivityModal}> (ref)
\* <Dialog open={(open && !showNextActivityModal) || showNextActivityModal}> (portal)
\* <Dialog open={open}> (callback)
MainDialogOpen(m) ==
    CASE variant = "ref" -> m.open /\ ~m.showNext
      [] variant = "portal" -> (m.open /\ ~m.showNext) \/ m.showNext
      [] variant = "callback" -> m.open

\* {showNextActivityModal && completedDataRef.current && <MandatoryNextActivityModal open=.../>}
\* {completedData && completedData.prospectId && <NextActivityPortal isOpen={showNextActivityModal}/>}
\* {data && <NextActivityPortal isOpen={isOpen}/>} (the host of callback)
NextModalOpen(m) == m.showNext /\ m.completedData

\* the workflow's closed state: neither modal is open
WorkflowClosed(m) == ~m.open /\ ~NextModalOpen(m)

\* buttons that are never disabled
isLoadingNever(m) == FALSE

\* isLoading: one of the three mutations is pending
isLoading(m) == m.mutation # "none"

\* validateComment(): !comment.trim() || comment.trim().length < minCommentLength
validateComment(c) == Trim(c).raw > 0 /\ Trim(c).raw >= minCommentLength

\* the reset effect: runs when its dependencies change; schedules the reset
\* timeout when everything is closed, and clears a scheduled one otherwise
ResetCondition(m) ==
    CASE variant = "ref" -> ~m.open /\ ~m.showNext
      [] variant = "portal" -> ~m.open /\ ~m.showNext /\ ~m.completedData
      [] variant = "callback" -> ~m.open

ResetDeps(m) ==
    CASE variant = "ref" -> <<m.open, m.showNext>>
      [] variant = "portal" -> <<m.open, m.showNext, m.completedData>>
      [] variant = "callback" -> <<m.open>>

WithEffects(old, new) ==
    IF ResetDeps(old) # ResetDeps(new)
    THEN [new EXCEPT !.resetTimer = ResetCondition(new)]
    ELSE new

\* handleClose(); the callback variant has none and calls onOpenChange(false)
handleClose(m) ==
    CASE variant = "ref" ->
           [m EXCEPT !.open = FALSE, !.modalState = "buttons", !.comment = EmptyText]
      [] variant = "portal" ->
           IF m.showNext \/ m.completedData
           THEN m
           ELSE [m EXCEPT !.open = FALSE, !.modalState = "buttons", !.comment = EmptyText]
      [] variant = "callback" ->
           [m EXCEPT !.open = FALSE]

\* handleNextActivityCreated(); for callback, the host's handleComplete()
handleNextActivityCreated(m) ==
    IF variant = "callback"
    THEN [m EXCEPT !.showNext = FALSE, !.completedData = FALSE]
    ELSE [m EXCEPT !.showNext = FALSE, !.completedData = FALSE,
                   !.modalState = "buttons", !.comment = EmptyText, !.open = FALSE]

\* a state change of ActivityModal: its effects run, and the next-activity
\* form keeps its fields only while it stays rendered
SetModal(new) ==
    /\ modal' = WithEffects(modal, new)
    /\ form' = [form EXCEPT !.fields = IF NextModalOpen(new) THEN @ ELSE FormIdle]

NoDialog == ~MainDialogOpen(modal) /\ ~NextModalOpen(modal)

\* ActivityItem / GeneralActivityItem: onClick={() => setIsModalOpen(true)}
\* (the card is listed while the cached bucket holds the activity: the buckets
\* hold pending activities, and the cache is refreshed when a mutation settles)
OpenModal(a) ==
    /\ a \in Ids
    /\ NoDialog
    /\ \/ /\ a = modal.activity
          /\ activities[a].status = "pending" \/ isLoading(modal)
          /\ SetModal([modal EXCEPT !.open = TRUE])
       \/ /\ a # modal.activity
          /\ activities[a].status = "pending"
          /\ modal.mutation = "none" /\ ~modal.showNext /\ ~modal.completedData
          /\ ~modal.resetTimer /\ form.create.state = "none"
          /\ SetModal([ModalIdle EXCEPT !.activity = a, !.user = modal.user,
                          !.prospect_id = activities[a].prospect_id,
                          !.assigned_to = activities[a].assigned_to,
                          !.open = TRUE])
    /\ UNCHANGED <<activities, clock, variant, edit, gen, dash, toast, logs, card>>

\* SI / NO / BLOQUEADA: setModalState(...)
ChooseOutcome(s) ==
    /\ MainDialogOpen(modal) /\ ~NextModalOpen(modal)
    /\ modal.modalState = "buttons"
    /\ ~isLoading(modal)
    /\ SetModal([modal EXCEPT !.modalState = s])
    /\ UNCHANGED <<activities, clock, variant, edit, gen, dash, toast, logs, card>>

\* <Textarea onChange={(e) => setComment(e.target.value)}>
TypeComment(c) ==
    /\ MainDialogOpen(modal) /\ ~NextModalOpen(modal)
    /\ modal.modalState # "buttons"
    /\ ~isLoading(modal)
    /\ modal.comment # c
    /\ SetModal([modal EXCEPT !.comment = c])
    /\ UNCHANGED <<activities, clock, variant, edit, gen, dash, toast, logs, card>>

\* Cancelar: setModalState('buttons'); setComment('')
CancelOutcome ==
    /\ MainDialogOpen(modal) /\ ~NextModalOpen(modal)
    /\ modal.modalState # "buttons"
    /\ ~isLoading(modal)
    /\ SetModal([modal EXCEPT !.modalState = "buttons", !.comment = EmptyText])
    /\ UNCHANGED <<activities, clock, variant, edit, gen, dash, toast, logs, card>>

\* handleDialogClose(false): Escape, click outside, the dialog's X
DialogClose ==
    /\ MainDialogOpen(modal)
    /\ IF modal.showNext \/ (variant = "portal" /\ modal.completedData)
       THEN SetModal(modal)
       ELSE SetModal(handleClose(modal))
    /\ UNCHANGED <<activities, clock, variant, edit, gen, dash, toast, logs, card>>

\* the 200 ms (ref, callback) / 2 s (portal) timeout of the reset effect fires
ResetTimerFires ==
    /\ modal.resetTimer
    /\ SetModal([modal EXCEPT !.modalState = "buttons", !.comment = EmptyText,
                              !.completedData = IF variant = "callback" THEN @ ELSE FALSE,
                              !.resetTimer = FALSE])
    /\ UNCHANGED <<activities, clock, variant, edit, gen, dash, toast, logs, card>>

-----------------------------------------------------------------------------
(* The three outcome handlers and their mutations *)

\* the prospect check left out: every activity is treated as prospect-linked
HasProspectAlways(m) == TRUE

HasProspect(m) == m.prospect_id # NoProspect

\* the handler starts its mutation: mutateAsync(...) is pending from here on
StartMutation(m, kind) ==
    [m EXCEPT !.mutation = kind, !.request = "sent", !.payload = Trim(m.comment), !.pc = "await"]

\* the handler's continuation is over: the mutation has settled
EndMutation(m) ==
    [m EXCEPT !.mutation = "none", !.request = "none", !.pc = "idle"]

\* handleComplete(), up to its first await.  (The submit button is disabled
\* for a short comment as well; the handler validates on its own.)
\*   ref:    completedDataRef.current = {...} if prospect_id; await mutateAsync
\*   portal: mutateAsync started without await; if prospect_id,
\*           setCompletedData(...) and wait 200 ms
\*   callback: await mutateAsync
HandleComplete ==
    /\ MainDialogOpen(modal) /\ ~NextModalOpen(modal)
    /\ modal.modalState = "complete"
    /\ ~isLoading(modal)
    /\ IF ~validateComment(modal.comment)
       THEN /\ toast' = "error"
            /\ UNCHANGED <<modal, form>>
       ELSE /\ SetModal([StartMutation(modal, "complete") EXCEPT
                           !.followUps = {},
                           !.completedData = IF variant # "callback" /\ HasProspect(modal)
                                             THEN TRUE ELSE @,
                           !.pc = IF variant = "portal" /\ HasProspect(modal)
                                  THEN "setup1" ELSE "await"])
            /\ UNCHANGED toast
    /\ UNCHANGED <<activities, clock, variant, edit, gen, dash, logs, card>>

\* portal: after the first 200 ms, setShowNextActivityModal(true)
PortalShowNext ==
    /\ variant = "portal"
    /\ modal.pc = "setup1"
    /\ SetModal([modal EXCEPT !.showNext = TRUE, !.pc = "setup2"])
    /\ UNCHANGED <<activities, clock, variant, edit, gen, dash, toast, logs, card>>

\* portal: after the second 200 ms, await mutationPromise
PortalAwait ==
    /\ variant = "portal"
    /\ modal.pc = "setup2"
    /\ SetModal([modal EXCEPT !.pc = "await"])
    /\ UNCHANGED <<activities, clock, variant, edit, gen, dash, toast, logs, card>>

\* handleNotComplete(), up to its await
HandleNotComplete ==
    /\ MainDialogOpen(modal) /\ ~NextModalOpen(modal)
    /\ modal.modalState = "not-complete"
    /\ ~isLoading(modal)
    /\ IF ~validateComment(modal.comment)
       THEN /\ toast' = "error"
            /\ UNCHANGED <<modal, form>>
       ELSE /\ SetModal(StartMutation(modal, "not-complete"))
            /\ UNCHANGED toast
    /\ UNCHANGED <<activities, clock, variant, edit, gen, dash, logs, card>>

\* handleBlock(), up to its await
HandleBlock ==
    /\ MainDialogOpen(modal) /\ ~NextModalOpen(modal)
    /\ modal.modalState = "block"
    /\ ~isLoading(modal)
    /\ IF ~validateComment(modal.comment)
       THEN /\ toast' = "error"
            /\ UNCHANGED <<modal, form>>
       ELSE /\ SetModal(StartMutation(modal, "block"))
            /\ UNCHANGED toast
    /\ UNCHANGED <<activities, clock, variant, edit, gen, dash, logs, card>>

\* useCompleteActivity.mutationFn:
\*   update({status: 'completed', completed_at: now, completion_comment: comment})
CompleteUpdate(row, comment) ==
    [row EXCEPT !.status = "completed", !.completed_at = Now, !.completion_comment = comment]

\* a not-complete update that also moves the activity to the next day
NotCompleteAndPostpone(row, comment) ==
    [row EXCEPT !.completion_comment = comment, !.scheduled_date = @ + 1]

\* useNotCompleteActivity.mutationFn: update({completion_comment: comment})
NotCompleteUpdate(row, comment) ==
    [row EXCEPT !.completion_comment = comment]

\* useBlockActivity.mutationFn:
\*   update({status: 'blocked', block_reason: blockReason, completion_comment: blockReason})
BlockUpdate(row, blockReason) ==
    [row EXCEPT !.status = "blocked", !.block_reason = blockReason,
                !.completion_comment = blockReason]

MutationUpdate(kind, row, text) ==
    CASE kind = "complete" -> CompleteUpdate(row, text)
      [] kind = "not-complete" -> NotCompleteUpdate(row, text)
      [] kind = "block" -> BlockUpdate(row, text)

\* the store applies the pending update
\* (.update(...).eq('id', id).select().single() finds the row)
StoreApplies ==
    /\ modal.request = "sent"
    /\ activities' = [activities EXCEPT ![modal.activity] =
                         MutationUpdate(modal.mutation, @, modal.payload)]
    /\ logs' = logs \cup log_activity_change("UPDATE", activities[modal.activity],
                                             activities'[modal.activity], modal.activity)
    /\ modal' = [modal EXCEPT !.request = "ok"]
    /\ UNCHANGED <<clock, variant, form, edit, gen, dash, toast, card>>

\* the store rejects the pending update: if (error) throw error
StoreRejects ==
    /\ modal.request = "sent"
    /\ modal' = [modal EXCEPT !.request = "error"]
    /\ UNCHANGED <<activities, clock, variant, form, edit, gen, dash, toast, logs, card>>

\* handleComplete() after its await
\*   ref:    success: if completedDataRef.current, setShowNextActivityModal(true)
\*                    else toast + handleClose();
\*           catch:   completedDataRef.current = null; error toast
\*   portal: success: if !originalProspectId, toast + handleClose();
\*           catch:   setShowNextActivityModal(false); setCompletedData(null); error toast
\*   callback: success: if !originalProspectId, toast + onOpenChange(false)
\*                    else onActivityCompleted(data) + onOpenChange(false);
\*           catch:   error toast
CompleteSucceeded(m) ==
    CASE variant = "ref" ->
           IF m.completedData
           THEN [EndMutation(m) EXCEPT !.showNext = TRUE]
           ELSE handleClose(EndMutation(m))
      [] variant = "portal" ->
           IF ~HasProspect(m)
           THEN handleClose(EndMutation(m))
           ELSE EndMutation(m)
      [] variant = "callback" ->
           IF ~HasProspect(m)
           THEN handleClose(EndMutation(m))
           ELSE [handleClose(EndMutation(m)) EXCEPT !.showNext = TRUE, !.completedData = TRUE]

CompleteFailed(m) ==
    CASE variant = "ref" -> [EndMutation(m) EXCEPT !.completedData = FALSE]
      [] variant = "portal" -> [EndMutation(m) EXCEPT !.completedData = FALSE, !.showNext = FALSE]
      [] variant = "callback" -> EndMutation(m)

\* the "Actividad completada" toast of the general branch
CompleteToast(m) ==
    IF (variant = "ref" /\ ~m.completedData) \/ (variant # "ref" /\ ~HasProspect(m))
    THEN "success" ELSE toast

CompleteSettles ==
    /\ modal.mutation = "complete"
    /\ modal.pc = "await"
    /\ modal.request \in {"ok", "error"}
    /\ IF modal.request = "ok"
       THEN /\ SetModal(CompleteSucceeded(modal))
            /\ toast' = CompleteToast(modal)
       ELSE /\ SetModal(CompleteFailed(modal))
            /\ toast' = "error"
    /\ UNCHANGED <<activities, clock, variant, edit, gen, dash, logs, card>>

\* handleNotComplete() / handleBlock() after their await:
\*   success: toast + handleClose();  catch: error toast
OutcomeSettles ==
    /\ modal.mutation \in {"not-complete", "block"}
    /\ modal.pc = "await"
    /\ modal.request \in {"ok", "error"}
    /\ IF modal.request = "ok"
       THEN /\ SetModal(handleClose(EndMutation(modal)))
            /\ toast' = "success"
       ELSE /\ SetModal(EndMutation(modal))
            /\ toast' = "error"
    /\ UNCHANGED <<activities, clock, variant, edit, gen, dash, logs, card>>

-----------------------------------------------------------------------------
(* The mandatory next-activity form: MandatoryNextActivityModal (ref),     *)
(* NextActivityPortal (portal)                                              *)

NextFormUsable == NextModalOpen(modal) /\ ~form.fields.showCloseWarning

\* <Select onValueChange={setActivityType}>
SelectType(ty) ==
    /\ NextFormUsable
    /\ form.fields.activityType # ty
    /\ form' = [form EXCEPT !.fields.activityType = ty]
    /\ UNCHANGED <<activities, clock, variant, modal, edit, gen, dash, toast, logs, card>>

\* <Calendar onSelect={setScheduledDate} disabled={(date) => date < today}>
SelectDate(d) ==
    /\ NextFormUsable
    /\ d >= LocalDay(Now)
    /\ form.fields.scheduledDate # d
    /\ form' = [form EXCEPT !.fields.scheduledDate = d]
    /\ UNCHANGED <<activities, clock, variant, modal, edit, gen, dash, toast, logs, card>>

\* <Textarea onChange={(e) => setDescription(e.target.value)}>
TypeDescription(t) ==
    /\ NextFormUsable
    /\ form.fields.description # t
    /\ form' = [form EXCEPT !.fields.description = t]
    /\ UNCHANGED <<activities, clock, variant, modal, edit, gen, dash, toast, logs, card>>

\* onPointerDownOutside, onEscapeKeyDown, handleOpenChange(false) (ref);
\* handleTryClose from the overlay and from the X (portal)
TryCloseNext ==
    /\ NextFormUsable
    /\ form' = [form EXCEPT !.fields.showCloseWarning = TRUE]
    /\ UNCHANGED <<activities, clock, variant, modal, edit, gen, dash, toast, logs, card>>

\* both buttons of the warning: setShowCloseWarning(false)
DismissCloseWarning ==
    /\ NextModalOpen(modal)
    /\ form.fields.showCloseWarning
    /\ form' = [form EXCEPT !.fields.showCloseWarning = FALSE]
    /\ UNCHANGED <<activities, clock, variant, modal, edit, gen, dash, toast, logs, card>>

\* validateFields() (ref): type, date, date not before local today, description
\* handleSubmit() (portal): type, date, description
validateFields(f) ==
    /\ f.activityType # NoType
    /\ f.scheduledDate # NoDate
    /\ variant = "ref" => f.scheduledDate >= LocalDay(Now)
    /\ Trim(f.description).raw > 0
    /\ Trim(f.description).raw >= minDescriptionLength

\* the row built without the data kept from the completed activity
NextActivityRowUnlinked(m, f) ==
    [ Row(NoProspect, f.activityType, f.scheduledDate, "pending", NoUser,
          Role(m.user), 0)
      EXCEPT !.notes = IF Trim(f.description).raw = 0 THEN NullText ELSE Trim(f.description) ]

\* the row handleSubmit() hands to createActivity.mutateAsync
\* (notes: description.trim() || null)
NextActivityRow(m, f) ==
    [ Row(m.prospect_id, f.activityType, f.scheduledDate, "pending", m.assigned_to,
          Role(m.user), 0)
      EXCEPT !.notes = IF Trim(f.description).raw = 0 THEN NullText ELSE Trim(f.description) ]

\* handleSubmit(), up to its await
SubmitNext ==
    /\ NextFormUsable
    /\ form.create.state = "none"
    /\ IF ~validateFields(form.fields)
       THEN /\ toast' = "error"
            /\ UNCHANGED form
       ELSE /\ form' = [form EXCEPT !.create =
                           [state |-> "sent", row |-> NextActivityRow(modal, form.fields)]]
            /\ UNCHANGED toast
    /\ UNCHANGED <<activities, clock, variant, modal, edit, gen, dash, logs, card>>

\* useCreateActivity.mutationFn: insert(activity).select().single()
StoreCreates ==
    /\ form.create.state = "sent"
    /\ Len(activities) < MaxActivities
    /\ activities' = Insert(activities, form.create.row)
    /\ logs' = logs \cup log_activity_change("INSERT", form.create.row, form.create.row,
                                             Len(activities) + 1)
    /\ form' = [form EXCEPT !.create.state = "ok"]
    /\ modal' = [modal EXCEPT !.followUps = @ \cup {Len(activities) + 1}]
    /\ UNCHANGED <<clock, variant, edit, gen, dash, toast, card>>

\* the insert fails: if (error) throw error
StoreRejectsCreate ==
    /\ form.create.state = "sent"
    /\ form' = [form EXCEPT !.create.state = "error"]
    /\ UNCHANGED <<activities, clock, variant, modal, edit, gen, dash, toast, logs, card>>

\* handleSubmit() after its await:
\*   success: onActivityCreated() = handleNextActivityCreated();  catch: error toast
CreateSettles ==
    /\ form.create.state \in {"ok", "error"}
    /\ IF form.create.state = "ok"
       THEN /\ modal' = WithEffects(modal, handleNextActivityCreated(modal))
            /\ form' = [fields |-> FormIdle, create |-> CreateIdle]
            /\ toast' = "success"
       ELSE /\ form' = [form EXCEPT !.create = CreateIdle]
            /\ toast' = "error"
            /\ UNCHANGED modal
    /\ UNCHANGED <<activities, clock, variant, edit, gen, dash, logs, card>>

-----------------------------------------------------------------------------
(* EditActivityModal: the manager's edit form, in the manager's own session *)

\* the activity prop: the row as the manager's cached list holds it
ActivityProp(row) ==
    [ activity_type |-> row.activity_type, scheduled_date |-> row.scheduled_date,
      status |-> row.status, assigned_to |-> row.assigned_to, notes |-> row.notes ]

\* useState(...) initial values / the reset effect on [activity]
EditForm(a, row) ==
    [ open |-> TRUE, activity |-> a, original |-> ActivityProp(row),
      activityType |-> row.activity_type, scheduledDate |-> row.scheduled_date,
      status |-> row.status, assignedTo |-> row.assigned_to,
      notes |-> IF row.notes.null THEN EmptyText ELSE row.notes,
      completionComment |-> EmptyText, blockReason |-> EmptyText,
      showReassignConfirm |-> FALSE, pendingAssignTo |-> NoUser,
      confirmed |-> NoUser ]          \* confirmed: the user of the last confirmed dialog

EditIdle ==
    [ EditForm(0, Row(NoProspect, NoType, NoDate, "pending", NoUser, "manager", 0))
      EXCEPT !.open = FALSE ]

\* showCompletionInput / showBlockInput
showCompletionInput(e) == e.status = "completed" /\ e.original.status # "completed"
showBlockInput(e) == e.status = "blocked" /\ e.original.status # "blocked"

\* the manager opens the edit form of a listed activity
EditOpen(a) ==
    /\ a \in Ids
    /\ ~edit.open
    /\ edit' = EditForm(a, activities[a])
    /\ UNCHANGED <<activities, clock, variant, modal, form, gen, dash, toast, logs, card>>

\* <Select value={status} onValueChange={setStatus}>
EditSetStatus(st) ==
    /\ edit.open
    /\ edit.status # st
    /\ edit' = [edit EXCEPT !.status = st]
    /\ UNCHANGED <<activities, clock, variant, modal, form, gen, dash, toast, logs, card>>

\* setCompletionComment(e.target.value)
EditTypeCompletionComment(c) ==
    /\ edit.open
    /\ showCompletionInput(edit)
    /\ edit.completionComment # c
    /\ edit' = [edit EXCEPT !.completionComment = c]
    /\ UNCHANGED <<activities, clock, variant, modal, form, gen, dash, toast, logs, card>>

\* setBlockReason(e.target.value)
EditTypeBlockReason(c) ==
    /\ edit.open
    /\ showBlockInput(edit)
    /\ edit.blockReason # c
    /\ edit' = [edit EXCEPT !.blockReason = c]
    /\ UNCHANGED <<activities, clock, variant, modal, form, gen, dash, toast, logs, card>>

\* <Select value={assignedTo} onValueChange={handleAssignedToChange}>
handleAssignedToChange(newValue) ==
    /\ edit.open /\ ~edit.showReassignConfirm
    /\ newValue # edit.assignedTo
    /\ IF newValue # edit.original.assigned_to /\ edit.original.assigned_to # NoUser
       THEN edit' = [edit EXCEPT !.pendingAssignTo = newValue, !.showReassignConfirm = TRUE]
       ELSE edit' = [edit EXCEPT !.assignedTo = newValue]
    /\ UNCHANGED <<activities, clock, variant, modal, form, gen, dash, toast, logs, card>>

\* Confirmar: confirmReassign()
EditConfirmReassign ==
    /\ edit.open /\ edit.showReassignConfirm
    /\ edit' = [edit EXCEPT
                  !.assignedTo = IF edit.pendingAssignTo # NoUser THEN edit.pendingAssignTo ELSE @,
                  !.confirmed = IF edit.pendingAssignTo # NoUser THEN edit.pendingAssignTo ELSE @,
                  !.pendingAssignTo = NoUser,
                  !.showReassignConfirm = FALSE]
    /\ UNCHANGED <<activities, clock, variant, modal, form, gen, dash, toast, logs, card>>

\* Cancelar: cancelReassign();  Escape: onOpenChange(false) alone
EditCancelReassign ==
    /\ edit.open /\ edit.showReassignConfirm
    /\ \/ edit' = [edit EXCEPT !.pendingAssignTo = NoUser, !.showReassignConfirm = FALSE]
       \/ edit' = [edit EXCEPT !.showReassignConfirm = FALSE]
    /\ UNCHANGED <<activities, clock, variant, modal, form, gen, dash, toast, logs, card>>

\* onOpenChange(false)
EditClose ==
    /\ edit.open
    /\ edit' = [edit EXCEPT !.open = FALSE]
    /\ UNCHANGED <<activities, clock, variant, modal, form, gen, dash, toast, logs, card>>

\* the length check left out
EditCommentAnyLength(t) == FALSE

\* completionComment.length < 10: the length of the text as typed
EditCommentTooShort(t) == t.raw < minCommentLength

\* mutationFn, the checks before the update
EditValid(e) ==
    /\ ~(showCompletionInput(e) /\ EditCommentTooShort(e.completionComment))
    /\ ~(showBlockInput(e) /\ EditCommentTooShort(e.blockReason))
    /\ ~(e.scheduledDate < LocalDay(Now) /\ e.original.scheduled_date >= LocalDay(Now))

\* updateData without completed_at
EditUpdateNoTimestamp(row, e) ==
    IF row = Deleted THEN row ELSE
    [ row EXCEPT
        !.activity_type = e.activityType,
        !.scheduled_date = e.scheduledDate,
        !.status = e.status,
        !.assigned_to = e.assignedTo,
        !.notes = e.notes,
        !.completion_comment = IF showCompletionInput(e) THEN e.completionComment
                               ELSE IF showBlockInput(e) THEN e.blockReason
                               ELSE @,
        !.block_reason = IF showBlockInput(e) THEN e.blockReason
                         ELSE IF e.status = "pending" /\ e.original.status = "blocked"
                              THEN NullText
                         ELSE @ ]

\* mutationFn, updateData applied to the stored row
EditUpdate(row, e) ==
    IF row = Deleted THEN row ELSE
    [ row EXCEPT
        !.activity_type = e.activityType,
        !.scheduled_date = e.scheduledDate,
        !.status = e.status,
        !.assigned_to = e.assignedTo,
        !.notes = e.notes,
        !.completed_at = IF showCompletionInput(e) THEN Now ELSE @,
        !.completion_comment = IF showCompletionInput(e) THEN e.completionComment
                               ELSE IF showBlockInput(e) THEN e.blockReason
                               ELSE @,
        !.block_reason = IF showBlockInput(e) THEN e.blockReason
                         ELSE IF e.status = "pending" /\ e.original.status = "blocked"
                              THEN NullText
                         ELSE @ ]

\* { from, to } of a changed value, undefined otherwise
Change(from, to) == IF from # to THEN <<from, to>> ELSE << >>

\* the 'update' entry the mutation adds to activity_logs: details.changes
\* (assignedTo is '' where the prop holds null, and '' !== null)
EditLog(e) ==
    [ action_type |-> "update", entity_id |-> e.activity,
      changes |->
        [ activity_type |-> Change(e.original.activity_type, e.activityType),
          scheduled_date |-> Change(e.original.scheduled_date, e.scheduledDate),
          status |-> Change(e.original.status, e.status),
          assigned_to |-> IF e.original.assigned_to = NoUser
                          THEN <<NoUser, e.assignedTo>>
                          ELSE Change(e.original.assigned_to, e.assignedTo) ] ]

\* handleSave(): updateActivityMutation.mutate()
\*   a failed check or a rejected update: onError, error toast
\*   otherwise the update, the 'update' log entry, onSuccess: toast, onOpenChange(false)
EditSave ==
    /\ edit.open
    /\ \/ /\ ~EditValid(edit)
          /\ toast' = "error"
          /\ UNCHANGED <<activities, logs, edit>>
       \/ /\ EditValid(edit)
          /\ toast' = "error"
          /\ UNCHANGED <<activities, logs, edit>>
       \/ /\ EditValid(edit)
          /\ activities' = [activities EXCEPT ![edit.activity] = EditUpdate(@, edit)]
          /\ \E written \in { {EditLog(edit)}, {} } :     \* the insert's error is not read
                logs' = logs \cup log_activity_change("UPDATE", activities[edit.activity],
                                                      activities'[edit.activity], edit.activity)
                             \cup written
          /\ edit' = [edit EXCEPT !.open = FALSE]
          /\ toast' = "success"
    /\ UNCHANGED <<clock, variant, modal, form, gen, dash, card>>

\* useUnblockActivity.mutationFn: update({status: 'pending', block_reason: null})
UnblockUpdate(row) == [row EXCEPT !.status = "pending", !.block_reason = NullText]

\* Dashboard.handleUnblock(id), from the Desbloquear button of a blocked card
\* (shown to managers): the update, then the toast
Unblock(a) ==
    /\ a \in Ids
    /\ activities[a].status = "blocked"
    /\ \/ /\ activities' = [activities EXCEPT ![a] = UnblockUpdate(@)]
          /\ toast' = "success"
       \/ /\ toast' = "error"
          /\ UNCHANGED activities
    /\ UNCHANGED <<clock, variant, modal, form, edit, gen, dash, logs, card>>

\* ProspectActivitiesModal: the Desbloquear button of a blocked activity in
\* the prospect's history (shown to managers): the same update, then the toast
unblockActivityMutation(a) ==
    /\ a \in Ids
    /\ activities[a].status = "blocked"
    /\ \/ /\ activities' = [activities EXCEPT ![a] =
                                [@ EXCEPT !.status = "pending", !.block_reason = NullText]]
          /\ toast' = "success"
       \/ /\ toast' = "error"
          /\ UNCHANGED activities
    /\ UNCHANGED <<clock, variant, modal, form, edit, gen, dash, logs, card>>

-----------------------------------------------------------------------------
(* useGenerateDailyCalls and get_prospects_for_daily_calls                  *)

\* the prospects whose current_phase is 'Prospección'
Prospeccion == 1..MaxProspects

Invocations == 1..MaxInvocations

RowsOf(x) == { a \in Ids : activities[a].prospect_id = x }

\* .eq('activity_type', 'Llamada').eq('created_by', 'system')
IsSystemCall(row) == row.activity_type = "Llamada" /\ row.created_by = "system"

\* NOT EXISTS (... status = 'pending' AND scheduled_date <= CURRENT_DATE + 7 days)
NoPendingSoon(x) ==
    ~ \E a \in RowsOf(x) :
          /\ activities[a].status = "pending"
          /\ activities[a].scheduled_date <= UtcDay(Now) + PendingWindowDays

\* NOT EXISTS (... status = 'completed' AND completed_at >= CURRENT_DATE - 3 days)
NoRecentCompletion(x) ==
    ~ \E a \in RowsOf(x) :
          /\ activities[a].status = "completed"
          /\ activities[a].completed_at # NoTime
          /\ OnOrAfterDay(activities[a].completed_at, UtcDay(Now) - CompletedWindowDays)

\* the third condition left out
SystemCallsIgnored(x) == TRUE

\* NOT EXISTS (... 'Llamada' AND created_by = 'system' AND created_at >= CURRENT_DATE - 2 days)
NoRecentSystemCall(x) ==
    ~ \E a \in RowsOf(x) :
          /\ IsSystemCall(activities[a])
          /\ OnOrAfterDay(activities[a].created_at, UtcDay(Now) - SystemCallWindowDays)

\* the WHERE clause of get_prospects_for_daily_calls()
EligibleProspects ==
    { x \in Prospeccion : NoPendingSoon(x) /\ NoRecentCompletion(x) /\ NoRecentSystemCall(x) }

Min(a, b) == IF a < b THEN a ELSE b

\* ORDER BY RANDOM() LIMIT 3, then prospects.slice(0, 3): the possible results
Selections(eligible) ==
    { S \in SUBSET eligible : Cardinality(S) = Min(MaxDailyCalls, Cardinality(eligible)) }

\* the count of the guard:
\* .eq('activity_type', 'Llamada').eq('created_by', 'system').gte('created_at', todayStr)
SystemCallsSince(day) ==
    { a \in Ids : IsSystemCall(activities[a]) /\ OnOrAfterDay(activities[a].created_at, day) }

\* dayOfWeek < 1 || dayOfWeek > 4
NotAWorkday(dayOfWeek) == dayOfWeek < 1 \/ dayOfWeek > 4

GenIdle ==
    [ i \in Invocations |->
        [ pc |-> "idle", todayStr |-> NoDate, localDay |-> NoDate, salesperson |-> NoUser,
          selected |-> {}, inserted |-> {}, outcome |-> "none",
          after |-> {}, startRows |-> 0, endRows |-> 0, callsToGenerate |-> 0 ] ]

\* the invocation returns or throws
GenDone(g, outcome) ==
    [g EXCEPT !.pc = "done", !.outcome = outcome, !.endRows = Len(activities)]

\* Dashboard mounts: generateDailyCalls.mutate(); mutationFn up to the guard's query
\*   today.getDay() is the local weekday, toISOString() the UTC date
GenStart(i) ==
    /\ gen[i].pc = "idle"
    /\ LET g == [gen[i] EXCEPT !.todayStr = UtcDay(Now), !.localDay = LocalDay(Now),
                               !.after = { j \in Invocations : gen[j].pc = "done" },
                               !.startRows = Len(activities)]
       IN  gen' = [gen EXCEPT ![i] =
                     IF NotAWorkday(DayOfWeek(LocalDay(Now)))
                     THEN GenDone(g, "not-a-workday")
                     ELSE [g EXCEPT !.pc = "guard"]]
    /\ UNCHANGED <<activities, clock, variant, modal, form, edit, dash, toast, logs, card>>

\* the guard's count arrives: if (count && count > 0) return;
\* then the salesperson query: .eq('role', 'salesperson').limit(1).maybeSingle()
GenGuard(i) ==
    /\ gen[i].pc = "guard"
    /\ IF SystemCallsSince(gen[i].todayStr) # {}
       THEN gen' = [gen EXCEPT ![i] = GenDone(@, "already-generated")]
       ELSE IF Salespersons = {}
            THEN gen' = [gen EXCEPT ![i] = GenDone(@, "no-salesperson")]
            ELSE \E u \in Salespersons :
                    gen' = [gen EXCEPT ![i] = [@ EXCEPT !.pc = "select", !.salesperson = u]]
    /\ UNCHANGED <<activities, clock, variant, modal, form, edit, dash, toast, logs, card>>

\* rpc('get_prospects_for_daily_calls') returns; prospects.slice(0, 3)
GenSelect(i) ==
    /\ gen[i].pc = "select"
    /\ IF EligibleProspects = {}
       THEN gen' = [gen EXCEPT ![i] = GenDone(@, "no-prospects")]
       ELSE \E S \in Selections(EligibleProspects) :
               gen' = [gen EXCEPT ![i] = [@ EXCEPT !.pc = "insert", !.selected = S]]
    /\ UNCHANGED <<activities, clock, variant, modal, form, edit, dash, toast, logs, card>>

\* newActivities: one row per selected prospect
DailyCall(x, g) == Row(x, "Llamada", g.todayStr, "pending", g.salesperson, "system", 0)

\* the selected prospects in the order of the rows inserted
RECURSIVE InsertAll(_, _, _)
InsertAll(tbl, S, g) ==
    IF S = {} THEN tbl
    ELSE LET x == CHOOSE y \in S : \A z \in S : y <= z
         IN  InsertAll(Insert(tbl, DailyCall(x, g)), S \ {x}, g)

\* the guard run again at the insert: nothing is inserted once calls exist
GenInsertGuarded(i) ==
    /\ gen[i].pc = "insert"
    /\ \/ /\ SystemCallsSince(gen[i].todayStr) # {}
          /\ gen' = [gen EXCEPT ![i] = GenDone(@, "already-generated")]
          /\ UNCHANGED <<activities, logs>>
       \/ /\ SystemCallsSince(gen[i].todayStr) = {}
          /\ activities' = InsertAll(activities, gen[i].selected, gen[i])
          /\ logs' = logs \cup { LogEntry("create", a) :
                                   a \in (Len(activities) + 1)..Len(activities') }
          /\ gen' = [gen EXCEPT ![i] =
                       [@ EXCEPT !.pc = "done", !.outcome = "generated",
                                 !.inserted = (Len(activities) + 1)..Len(activities'),
                                 !.endRows = Len(activities')]]
    /\ UNCHANGED <<clock, variant, modal, form, edit, dash, toast, card>>

\* .insert(newActivities): all rows are inserted, or the insert fails
GenInsert(i) ==
    /\ gen[i].pc = "insert"
    /\ \/ /\ activities' = InsertAll(activities, gen[i].selected, gen[i])
          /\ logs' = logs \cup UNION { log_activity_change("INSERT", activities'[a],
                                                             activities'[a], a) :
                                         a \in (Len(activities) + 1)..Len(activities') }
          /\ gen' = [gen EXCEPT ![i] =
                       [@ EXCEPT !.pc = "done", !.outcome = "generated",
                                 !.inserted = (Len(activities) + 1)..Len(activities'),
                                 !.endRows = Len(activities')]]
       \/ /\ gen' = [gen EXCEPT ![i] = GenDone(@, "error")]
          /\ UNCHANGED <<activities, logs>>
    /\ UNCHANGED <<clock, variant, modal, form, edit, dash, toast, card>>

\* The earlier useGenerateDailyCalls that tops the day's calls up to 3 and has
\* no weekday check (variant "everyday"): mutationFn up to its first query
EverydayStart(i) ==
    /\ gen[i].pc = "idle"
    /\ gen' = [gen EXCEPT ![i] =
                 [@ EXCEPT !.pc = "guard", !.todayStr = UtcDay(Now), !.localDay = LocalDay(Now),
                           !.after = { j \in Invocations : gen[j].pc = "done" },
                           !.startRows = Len(activities)]]
    /\ UNCHANGED <<activities, clock, variant, modal, form, edit, dash, toast, logs, card>>

\* .eq('activity_type', 'Llamada').eq('scheduled_date', today).eq('created_by', 'system')
SystemCallsScheduled(day) ==
    { a \in Ids : IsSystemCall(activities[a]) /\ activities[a].scheduled_date = day }

\* existingCalls arrives: if (existingCalls.length >= 3) return;
\* callsToGenerate = 3 - existingCalls.length; then the prospects of the phase
EverydayGuard(i) ==
    /\ gen[i].pc = "guard"
    /\ LET existingCalls == SystemCallsScheduled(gen[i].todayStr)
       IN  IF Cardinality(existingCalls) >= MaxDailyCalls
           THEN gen' = [gen EXCEPT ![i] = GenDone(@, "already-generated")]
           ELSE IF Prospeccion = {}
                THEN gen' = [gen EXCEPT ![i] = GenDone(@, "no-prospects")]
                ELSE gen' = [gen EXCEPT ![i] =
                               [@ EXCEPT !.pc = "select",
                                         !.callsToGenerate =
                                             MaxDailyCalls - Cardinality(existingCalls)]]
    /\ UNCHANGED <<activities, clock, variant, modal, form, edit, dash, toast, logs, card>>

\* prospectsWithCalls arrives: the prospects without a Llamada scheduled today,
\* shuffled; slice(0, Math.min(callsToGenerate, shuffled.length))
EverydaySelect(i) ==
    /\ gen[i].pc = "select"
    /\ LET prospectsWithCalls ==
               { activities[a].prospect_id :
                   a \in { b \in Ids : /\ activities[b].activity_type = "Llamada"
                                       /\ activities[b].scheduled_date = gen[i].todayStr } }
           availableProspects == Prospeccion \ prospectsWithCalls
       IN  IF availableProspects = {}
           THEN gen' = [gen EXCEPT ![i] = GenDone(@, "no-prospects")]
           ELSE \E S \in SUBSET availableProspects :
                   /\ Cardinality(S) = Min(gen[i].callsToGenerate,
                                           Cardinality(availableProspects))
                   /\ gen' = [gen EXCEPT ![i] = [@ EXCEPT !.pc = "insert", !.selected = S]]
    /\ UNCHANGED <<activities, clock, variant, modal, form, edit, dash, toast, logs, card>>

\* CreateActivityModal.handleSubmit(): a manager schedules an activity for a
\* prospect, today or (urgent) yesterday
CreateProspectActivity(x, isUrgent) ==
    /\ Cardinality({ a \in Ids : activities[a].created_by = "manager" }) < MaxCreated
    /\ LET finalDate == IF isUrgent THEN LocalDay(Now) - 1 ELSE LocalDay(Now)
           row == Row(x, "Llamada", finalDate, "pending", NoUser, "manager", 0)
       IN  \/ /\ activities' = Insert(activities, row)
              /\ logs' = logs \cup log_activity_change("INSERT", row, row, Len(activities) + 1)
              /\ toast' = "success"
           \/ /\ toast' = "error"
              /\ UNCHANGED <<activities, logs>>
    /\ UNCHANGED <<clock, variant, modal, form, edit, gen, dash, card>>

-----------------------------------------------------------------------------
(* ActivityItem: the card of an activity on a manager's dashboard and its  *)
(* quick actions.  The card and the edit form above may be open in          *)
(* different manager sessions.                                              *)

\* useState(...) of ActivityItem; prop: the activity prop, the row as the
\* manager's cached bucket holds it
CardIdle ==
    [ activity |-> 0, prop |-> ActivityProp(Deleted),
      showReassignConfirm |-> FALSE, pendingUserId |-> NoUser,
      showDeleteConfirm |-> FALSE,
      mutations |-> 0 ]               \* mutations: the quick mutations carried out so far

\* a bucket query of the dashboard returns: the card of a listed activity is
\* mounted, or rendered again with the row just fetched
CardFetch(a) ==
    /\ Exists(a)
    /\ card' = IF a = card.activity
               THEN [card EXCEPT !.prop = ActivityProp(activities[a])]
               ELSE [CardIdle EXCEPT !.activity = a, !.prop = ActivityProp(activities[a]),
                                     !.mutations = card.mutations]
    /\ UNCHANGED <<activities, clock, variant, modal, form, edit, gen, dash, toast, logs>>

CardUsable ==
    /\ card.activity # 0
    /\ ~card.showReassignConfirm /\ ~card.showDeleteConfirm
    /\ card.mutations < MaxMutations

\* details of the entries the quick actions add to activity_logs
QuickLog(action, from, to) ==
    [ action_type |-> "update", entity_id |-> card.activity,
      quick_action |-> action, from |-> from, to |-> to ]

ReassignLog(from, to) ==
    [ action_type |-> "update", entity_id |-> card.activity,
      quick_action |-> "reassign", from |-> from, to |-> to, to_name |-> to ]

\* a quick mutation: .update(change).eq('id', activity.id), throw on error,
\* then the insert into activity_logs, whose error is not read; onSuccess or
\* onError.  changed: the row as the update leaves it; closed: the card once
\* its dialogs and popovers are closed
QuickMutation(changed, entry, closed) ==
    \/ /\ toast' = "error"
       /\ card' = [card EXCEPT !.showReassignConfirm = FALSE]
       /\ UNCHANGED <<activities, logs>>
    \/ /\ activities' = IF Exists(card.activity)
                         THEN [activities EXCEPT ![card.activity] = changed]
                         ELSE activities
       /\ \E written \in { {entry}, {} } :
             logs' = logs \cup written
                          \cup IF Exists(card.activity)
                               THEN log_activity_change("UPDATE", activities[card.activity],
                                                        activities'[card.activity],
                                                        card.activity)
                               ELSE {}
       /\ toast' = "success"
       /\ card' = [closed EXCEPT !.mutations = @ + 1]

\* <Calendar onSelect={(date) => date && updateDateMutation.mutate(date)}>
updateDateMutation(newDate) ==
    /\ CardUsable
    /\ LET changed == [activities[card.activity] EXCEPT !.scheduled_date = newDate]
       IN  QuickMutation(changed, QuickLog("change_date", card.prop.scheduled_date, newDate),
                         card)
    /\ UNCHANGED <<clock, variant, modal, form, edit, gen, dash>>

\* Marcar como urgente (disabled on a card of the urgent bucket):
\* markUrgentMutation, scheduled_date = yesterday of the browser's calendar
markUrgentMutation ==
    /\ CardUsable
    /\ ~(card.prop.status = "pending" /\ card.prop.scheduled_date < UtcDay(Now))
    /\ LET changed == [activities[card.activity] EXCEPT !.scheduled_date = LocalDay(Now) - 1]
       IN  QuickMutation(changed,
                         QuickLog("mark_urgent", card.prop.scheduled_date, LocalDay(Now) - 1),
                         card)
    /\ UNCHANGED <<clock, variant, modal, form, edit, gen, dash>>

\* handleUserSelect(userId)
handleUserSelect(userId) ==
    /\ CardUsable
    /\ userId # card.prop.assigned_to
    /\ card' = [card EXCEPT !.pendingUserId = userId, !.showReassignConfirm = TRUE]
    /\ UNCHANGED <<activities, clock, variant, modal, form, edit, gen, dash, toast, logs>>

\* Cancelar: setPendingUserId(null);  Escape: onOpenChange(false) alone
ReassignDismiss ==
    /\ card.showReassignConfirm
    /\ \/ card' = [card EXCEPT !.pendingUserId = NoUser, !.showReassignConfirm = FALSE]
       \/ card' = [card EXCEPT !.showReassignConfirm = FALSE]
    /\ UNCHANGED <<activities, clock, variant, modal, form, edit, gen, dash, toast, logs>>

\* Confirmar: confirmReassign(), reassignMutation.mutate(pendingUserId)
confirmReassign ==
    /\ card.showReassignConfirm
    /\ card.pendingUserId # NoUser
    /\ LET changed == [activities[card.activity] EXCEPT !.assigned_to = card.pendingUserId]
       IN  QuickMutation(changed, ReassignLog(card.prop.assigned_to, card.pendingUserId),
                         [card EXCEPT !.showReassignConfirm = FALSE, !.pendingUserId = NoUser])
    /\ UNCHANGED <<clock, variant, modal, form, edit, gen, dash>>

\* Eliminar: setShowDeleteConfirm(true)
AskDelete ==
    /\ CardUsable
    /\ card' = [card EXCEPT !.showDeleteConfirm = TRUE]
    /\ UNCHANGED <<activities, clock, variant, modal, form, edit, gen, dash, toast, logs>>

\* Cancelar / Escape of the delete confirmation
DeleteDismiss ==
    /\ card.showDeleteConfirm
    /\ card' = [card EXCEPT !.showDeleteConfirm = FALSE]
    /\ UNCHANGED <<activities, clock, variant, modal, form, edit, gen, dash, toast, logs>>

\* a delete that takes the activity's audit entries with it
deleteMutationCascading ==
    /\ card.showDeleteConfirm
    /\ Exists(card.activity)
    /\ activities' = [activities EXCEPT ![card.activity] = Deleted]
    /\ logs' = { l \in logs : l.entity_id # card.activity }
    /\ toast' = "success"
    /\ card' = [card EXCEPT !.showDeleteConfirm = FALSE, !.mutations = @ + 1]
    /\ UNCHANGED <<clock, variant, modal, form, edit, gen, dash>>

\* Eliminar of the confirmation: deleteMutation.mutate(); .delete().eq('id', id)
deleteMutation ==
    /\ card.showDeleteConfirm
    /\ \/ /\ toast' = "error"
          /\ UNCHANGED activities
       \/ /\ activities' = IF Exists(card.activity)
                            THEN [activities EXCEPT ![card.activity] = Deleted]
                            ELSE activities
          /\ toast' = "success"
    /\ card' = [card EXCEPT !.showDeleteConfirm = FALSE,
                            !.mutations = IF toast' = "success" THEN @ + 1 ELSE @]
    /\ UNCHANGED <<clock, variant, modal, form, edit, gen, dash, logs>>

-----------------------------------------------------------------------------
(* AuthContext: signIn and signOut of the session that modal.user names *)

\* logLogin(userId) / logLogout(userId): the row inserted into activity_logs
SessionLog(action, userId) == [action_type |-> action, entity_id |-> 0, user_id |-> userId]

\* signIn(email, password): signInWithPassword, then logLogin on success
\* (the insert's error is not read), the auth listener sets the user
signIn(u) ==
    /\ modal.user = NoUser
    /\ \/ UNCHANGED <<modal, logs>>
       \/ /\ \E written \in { {SessionLog("login", u)}, {} } : logs' = logs \cup written
          /\ modal' = [modal EXCEPT !.user = u]
    /\ UNCHANGED <<activities, clock, variant, form, edit, gen, dash, toast, card>>

\* signOut(): logLogout while the user is known, auth.signOut(), setUser(null)
signOut ==
    /\ modal.user # NoUser
    /\ \E written \in { {SessionLog("logout", modal.user)}, {} } : logs' = logs \cup written
    /\ modal' = [modal EXCEPT !.user = NoUser]
    /\ UNCHANGED <<activities, clock, variant, form, edit, gen, dash, toast, card>>

-----------------------------------------------------------------------------
(* The completion workflow on its own *)

DashIdle == [ user |-> NoUser, bucket |-> "none", rows |-> {} ]

FormInit == [fields |-> FormIdle, create |-> CreateIdle]

\* one pending activity due today, prospect-linked or general; s1 is signed in
InitFlow ==
    /\ \E p \in {NoProspect, 1} :
          activities = << Row(p, IF p = NoProspect THEN "General" ELSE "Llamada",
                              0, "pending", "s1", "salesperson", 0) >>
    /\ clock = [now |-> 0, tz |-> 0, horizon |-> 0]
    /\ variant \in {"ref", "portal", "callback"}
    /\ modal = ModalIdle
    /\ form = FormInit
    /\ edit = EditIdle
    /\ gen = GenIdle
    /\ dash = DashIdle
    /\ card = CardIdle
    /\ toast = "none"
    /\ logs = {}

FlowComments == { Text(minCommentLength, minCommentLength - 1),
                  Text(minCommentLength + MaxPad, minCommentLength) }

FlowDescriptions == { Text(minDescriptionLength, minDescriptionLength - 1),
                      Text(minDescriptionLength + MaxPad, minDescriptionLength) }

NextFlow ==
    \/ \E a \in Ids : OpenModal(a)
    \/ \E s \in {"complete", "not-complete", "block"} : ChooseOutcome(s)
    \/ \E c \in FlowComments : TypeComment(c)
    \/ CancelOutcome
    \/ DialogClose
    \/ ResetTimerFires
    \/ HandleComplete
    \/ PortalShowNext
    \/ PortalAwait
    \/ HandleNotComplete
    \/ HandleBlock
    \/ StoreApplies
    \/ StoreRejects
    \/ CompleteSettles
    \/ OutcomeSettles
    \/ \E ty \in {"Seguimiento"} : SelectType(ty)
    \/ \E d \in {LocalDay(Now)} : SelectDate(d)
    \/ \E t \in FlowDescriptions : TypeDescription(t)
    \/ TryCloseNext
    \/ DismissCloseWarning
    \/ SubmitNext
    \/ StoreCreates
    \/ StoreRejectsCreate
    \/ CreateSettles

SpecFlow == InitFlow /\ [][NextFlow]_vars

-----------------------------------------------------------------------------
(* Properties of the completion workflow *)

\* the follow-ups created for the modal's prospect since its last completion attempt
FollowUpsForProspect(m) ==
    { f \in m.followUps : activities[f].prospect_id = m.prospect_id }

\* C3: for an activity with a prospect that is completed through the
\* completion modal, the workflow is not in its closed state (completion
\* modal and next-activity modal both closed, nothing of the completion
\* still pending) unless a new activity for that prospect has been created.
C3_ClosedOnlyAfterFollowUp ==
    \A a \in Ids :
        ( /\ a = modal.activity
          /\ activities[a].prospect_id # NoProspect
          /\ activities[a].status = "completed"
          /\ WorkflowClosed(modal)
          /\ modal.mutation = "none" )
        => FollowUpsForProspect(modal) # {}

\* the request a successful exit of the next-activity modal must carry
ValidCreateRequest(c) ==
    /\ c.state = "ok"
    /\ c.row.activity_type \in ProspectTypes
    /\ c.row.scheduled_date # NoDate
    /\ c.row.scheduled_date >= LocalDay(Now)
    /\ ~c.row.notes.null
    /\ c.row.notes.raw >= minDescriptionLength

\* C4: once the mandatory next-activity modal is open, it stays open in every
\* later state until a create request carrying a type, a date not before
\* today and a description of at least 5 characters has succeeded: a step
\* that closes it is the settling of such a request.
C4_NextModalStaysOpen ==
    [][ (NextModalOpen(modal) /\ ~NextModalOpen(modal'))
        => ValidCreateRequest(form.create) ]_vars

C10_RejectedUpdate ==
    [][ /\ (modal.request = "sent" /\ modal'.request = "error")
           => activities' = activities
        /\ (modal.request = "error" /\ modal'.request = "none")
           => /\ activities' = activities
              /\ toast' = "error"
              /\ ~NextModalOpen(modal')
              /\ modal'.followUps = {} ]_vars

-----------------------------------------------------------------------------
(* The stored lifecycle: the completion modal of one session, the manager's *)
(* edit form and the dashboard's unblock button of others                   *)

\* a comment box holds the empty text until something is typed
LifeComments == { Text(minCommentLength + MaxPad, minCommentLength) }

\* long enough as typed, blank once trimmed
EditComments == { Text(minCommentLength + MaxPad, 0) }

InitLifecycle ==
    /\ \E p \in {NoProspect, 1} :
          activities = << Row(p, IF p = NoProspect THEN "General" ELSE "Llamada",
                              0, "pending", "s1", "salesperson", 0) >>
    /\ clock = [now |-> 0, tz |-> 0, horizon |-> 0]
    /\ variant = "ref"
    /\ modal = ModalIdle
    /\ form = FormInit
    /\ edit = EditIdle
    /\ gen = GenIdle
    /\ dash = DashIdle
    /\ card = CardIdle
    /\ toast = "none"
    /\ logs = {}

NextLifecycle ==
    \/ \E a \in Ids : OpenModal(a)
    \/ \E s \in {"complete", "not-complete", "block"} : ChooseOutcome(s)
    \/ \E c \in LifeComments : TypeComment(c)
    \/ DialogClose
    \/ ResetTimerFires
    \/ HandleComplete
    \/ HandleNotComplete
    \/ HandleBlock
    \/ StoreApplies
    \/ StoreRejects
    \/ CompleteSettles
    \/ OutcomeSettles
    \/ \E a \in Ids : edit = EditIdle /\ EditOpen(a)
    \/ \E st \in ActivityStatus : EditSetStatus(st)
    \/ \E c \in EditComments : EditTypeCompletionComment(c)
    \/ \E c \in EditComments : EditTypeBlockReason(c)
    \/ EditClose
    \/ EditSave
    \/ \E a \in Ids : Unblock(a)
    \/ \E a \in Ids : unblockActivityMutation(a)

SpecLifecycle == InitLifecycle /\ [][NextLifecycle]_vars

C2_BlockedHasReason ==
    \A a \in Ids :
        activities[a].status = "blocked"
        => /\ ~activities[a].block_reason.null
           /\ activities[a].block_reason.raw >= minCommentLength

-----------------------------------------------------------------------------
(* The daily-call generation: its invocations and the clock *)

ValidComment == Text(minCommentLength, minCommentLength)

\* the second Monday: the first instants of the runs are its two halves
FirstDay == DaysPerWeek + 1

\* what the table may hold for prospect 1 when the generation starts, at
\* instant t of UTC day d: nothing, a pending activity due on the last day of
\* the window or the day after, an activity completed at the first instant of
\* the window or the instant before, a (blocked) system call created at the
\* first instant of its window or the instant before
Histories(t) ==
    LET d == UtcDay(t)
        pending(due) == Row(1, "Seguimiento", due, "pending", "s1", "salesperson", 0)
        completed(at) ==
            [ Row(1, "Seguimiento", UtcDay(at), "completed", "s1", "salesperson", 0)
              EXCEPT !.completed_at = at, !.completion_comment = ValidComment ]
        systemCall(at) ==
            [ Row(1, "Llamada", UtcDay(at), "blocked", "s1", "system", at)
              EXCEPT !.block_reason = ValidComment, !.completion_comment = ValidComment ]
    IN  { << >>,
          << pending(d + PendingWindowDays) >>,
          << pending(d + PendingWindowDays + 1) >>,
          << completed((d - CompletedWindowDays) * TicksPerDay) >>,
          << completed((d - CompletedWindowDays) * TicksPerDay - 1) >>,
          << systemCall((d - SystemCallWindowDays) * TicksPerDay) >>,
          << systemCall((d - SystemCallWindowDays) * TicksPerDay - 1) >> }

InitDaily ==
    /\ \E t \in (FirstDay * TicksPerDay)..(FirstDay * TicksPerDay + 1), z \in 0..MaxOffset :
          /\ clock = [now |-> t, tz |-> z, horizon |-> t + MaxElapsed]
          /\ activities \in Histories(t)
    /\ variant = "ref"
    /\ modal = ModalIdle
    /\ form = FormInit
    /\ edit = EditIdle
    /\ gen = GenIdle
    /\ dash = DashIdle
    /\ card = CardIdle
    /\ toast = "none"
    /\ logs = {}

NextDaily ==
    \/ Tick
    \/ \E i \in Invocations : GenStart(i)
    \/ \E i \in Invocations : GenGuard(i)
    \/ \E i \in Invocations : GenSelect(i)
    \/ \E i \in Invocations : GenInsert(i)

SpecDaily == InitDaily /\ [][NextDaily]_vars

\* C6: when the generation runs twice on the same calendar day (of the
\* browser that runs it) with no other operation between the two runs, the
\* second run inserts nothing.
C6_SecondRunInsertsNothing ==
    \A i, j \in Invocations :
        ( /\ gen[j].pc = "done"
          /\ i \in gen[j].after
          /\ gen[i].outcome # "error"
          /\ gen[j].localDay = gen[i].localDay
          /\ gen[j].startRows = gen[i].endRows )
        => gen[j].inserted = {}

\* C7: an invocation that has passed the existing-calls guard and has selected
\* prospects inserts a call for each of them unless the insert itself fails:
\* nothing re-checks the guard, whatever another invocation has inserted
\* meanwhile.
C7_PassedGuardInserts ==
    \A i \in Invocations :
        (gen[i].pc = "done" /\ gen[i].selected # {} /\ gen[i].outcome # "error")
        => /\ gen[i].outcome = "generated"
           /\ { activities[a].prospect_id : a \in gen[i].inserted } = gen[i].selected
           /\ Cardinality(gen[i].inserted) = Cardinality(gen[i].selected)

\* double generation: two invocations of the same day have both inserted, and
\* the day holds more system calls than either of them created
C7_DoubleGeneration ==
    \E i, j \in Invocations :
        /\ i # j
        /\ gen[i].outcome = "generated" /\ gen[j].outcome = "generated"
        /\ gen[i].todayStr = gen[j].todayStr
        /\ i \notin gen[j].after /\ j \notin gen[i].after
        /\ Cardinality(SystemCallsSince(gen[i].todayStr)) > Cardinality(gen[i].selected)
        /\ Cardinality(SystemCallsSince(gen[i].todayStr)) > Cardinality(gen[j].selected)

\* the three exclusions as the claim words them, at the present instant
PendingDueWithin(x, days) ==
    \E a \in RowsOf(x) :
        /\ activities[a].status = "pending"
        /\ activities[a].scheduled_date >= UtcDay(Now)
        /\ activities[a].scheduled_date <= UtcDay(Now) + days

CompletedWithin(x, days) ==
    \E a \in RowsOf(x) :
        /\ activities[a].status = "completed"
        /\ activities[a].completed_at >= Now - days * TicksPerDay

SystemCallWithin(x, days) ==
    \E a \in RowsOf(x) :
        /\ IsSystemCall(activities[a])
        /\ activities[a].created_at >= Now - days * TicksPerDay

Excluded(x) ==
    \/ PendingDueWithin(x, PendingWindowDays)
    \/ CompletedWithin(x, CompletedWindowDays)
    \/ SystemCallWithin(x, SystemCallWindowDays)

-----------------------------------------------------------------------------
(* The dashboard's bucket queries *)

Buckets == {"urgent", "today", "week", "blocked", "new-calls", "general"}

\* the row-level policy of the activities table: a salesperson sees the rows
\* assigned to them, a manager sees every row
can_view(u, row) == Role(u) = "manager" \/ row.assigned_to = u

\* the policy left out: every row, whoever asks
FromActivitiesOfAnyone(u) == Ids

\* supabase.from('activities').select(...) in the session of user u
FromActivities(u) == { a \in Ids : can_view(u, activities[a]) }

\* .eq('status', 'pending').lt('scheduled_date', today).not('prospect_id', 'is', null)
Urgent(row) ==
    /\ row.status = "pending"
    /\ row.scheduled_date < UtcDay(Now)
    /\ row.prospect_id # NoProspect

\* today taken from the browser's local date instead of the UTC date
TodayLocal(row) ==
    /\ row.status = "pending"
    /\ row.scheduled_date = LocalDay(Now)
    /\ row.prospect_id # NoProspect

\* .eq('status', 'pending').eq('scheduled_date', today).not('prospect_id', 'is', null)
Today(row) ==
    /\ row.status = "pending"
    /\ row.scheduled_date = UtcDay(Now)
    /\ row.prospect_id # NoProspect

\* the lower end of the week compared with gte instead of gt
WeekFromToday(row) ==
    /\ row.status = "pending"
    /\ row.scheduled_date >= UtcDay(Now)
    /\ row.scheduled_date <= UtcDay(Now + WeekWindowDays * TicksPerDay)
    /\ row.prospect_id # NoProspect

\* the upper end of the week compared with lt instead of lte
WeekBeforeNextWeek(row) ==
    /\ row.status = "pending"
    /\ row.scheduled_date > UtcDay(Now)
    /\ row.scheduled_date < UtcDay(Now + WeekWindowDays * TicksPerDay)
    /\ row.prospect_id # NoProspect

\* .gt('scheduled_date', todayStr).lte('scheduled_date', nextWeekStr)
Week(row) ==
    /\ row.status = "pending"
    /\ row.scheduled_date > UtcDay(Now)
    /\ row.scheduled_date <= UtcDay(Now + WeekWindowDays * TicksPerDay)
    /\ row.prospect_id # NoProspect

\* .eq('status', 'blocked')
Blocked(row) == row.status = "blocked"

\* .eq('status', 'pending').eq('activity_type', 'Llamada')
\* .eq('scheduled_date', today).eq('created_by', 'system')
NewCalls(row) ==
    /\ row.status = "pending"
    /\ row.activity_type = "Llamada"
    /\ row.scheduled_date = UtcDay(Now)
    /\ row.created_by = "system"

\* .eq('status', 'pending').is('prospect_id', null)
General(row) ==
    /\ row.status = "pending"
    /\ row.prospect_id = NoProspect

\* .order('created_at', { ascending: true }).limit(n): the possible results
Limit(S, n) ==
    { T \in SUBSET S :
        /\ Cardinality(T) = Min(n, Cardinality(S))
        /\ \A a \in T, b \in S \ T : activities[a].created_at <= activities[b].created_at }

\* what the hook of a bucket holds once its query has returned
QueryData(u, bucket, rows) == [user |-> u, bucket |-> bucket, rows |-> rows]

useUrgentActivities(u) ==
    /\ dash' = QueryData(u, "urgent", { a \in FromActivities(u) : Urgent(activities[a]) })
    /\ UNCHANGED <<activities, clock, variant, modal, form, edit, gen, toast, logs, card>>

useTodayActivities(u) ==
    /\ dash' = QueryData(u, "today", { a \in FromActivities(u) : Today(activities[a]) })
    /\ UNCHANGED <<activities, clock, variant, modal, form, edit, gen, toast, logs, card>>

useWeekActivities(u) ==
    /\ dash' = QueryData(u, "week", { a \in FromActivities(u) : Week(activities[a]) })
    /\ UNCHANGED <<activities, clock, variant, modal, form, edit, gen, toast, logs, card>>

useBlockedActivities(u) ==
    /\ dash' = QueryData(u, "blocked", { a \in FromActivities(u) : Blocked(activities[a]) })
    /\ UNCHANGED <<activities, clock, variant, modal, form, edit, gen, toast, logs, card>>

useNewCallsActivities(u) ==
    /\ \E rows \in Limit({ a \in FromActivities(u) : NewCalls(activities[a]) },
                         NewCallsLimit) :
          dash' = QueryData(u, "new-calls", rows)
    /\ UNCHANGED <<activities, clock, variant, modal, form, edit, gen, toast, logs, card>>

useGeneralActivities(u) ==
    /\ dash' = QueryData(u, "general", { a \in FromActivities(u) : General(activities[a]) })
    /\ UNCHANGED <<activities, clock, variant, modal, form, edit, gen, toast, logs, card>>

\* a row that falls into the bucket named, at instant t, assigned to u
SeedRow(bucket, u, t) ==
    CASE bucket = "urgent" ->
            Row(1, "Seguimiento", UtcDay(t) - 1, "pending", u, "salesperson", 0)
      [] bucket = "today" ->
            Row(1, "Seguimiento", UtcDay(t), "pending", u, "salesperson", 0)
      [] bucket = "week" ->
            Row(1, "Seguimiento", UtcDay(t) + WeekWindowDays, "pending", u, "salesperson", 0)
      [] bucket = "blocked" ->
            [ Row(1, "Seguimiento", UtcDay(t), "blocked", u, "salesperson", 0)
              EXCEPT !.block_reason = ValidComment ]
      [] bucket = "new-calls" ->
            Row(2, "Llamada", UtcDay(t), "pending", u, "system", 0)
      [] bucket = "general" ->
            Row(NoProspect, "General", UtcDay(t), "pending", u, "salesperson", 0)

\* the table holds MaxSeeded rows of two buckets, the first half of them
\* assigned to s1 and the rest to s2
InitDash ==
    /\ \E z \in 0..MaxOffset, kind \in [0..1 -> Buckets] :
          /\ clock = [now |-> FirstDay * TicksPerDay, tz |-> z,
                      horizon |-> FirstDay * TicksPerDay + MaxElapsed]
          /\ activities =
                [ k \in 1..MaxSeeded |->
                    SeedRow(kind[k % 2],
                            IF 2 * k <= MaxSeeded THEN "s1" ELSE "s2",
                            FirstDay * TicksPerDay) ]
    /\ variant = "ref"
    /\ modal = ModalIdle
    /\ form = FormInit
    /\ edit = EditIdle
    /\ gen = GenIdle
    /\ dash = DashIdle
    /\ card = CardIdle
    /\ toast = "none"
    /\ logs = {}

NextDash ==
    \/ Tick
    \/ \E isUrgent \in BOOLEAN : CreateProspectActivity(1, isUrgent)
    \/ \E u \in Users : useUrgentActivities(u)
    \/ \E u \in Users : useTodayActivities(u)
    \/ \E u \in Users : useWeekActivities(u)
    \/ \E u \in Users : useBlockedActivities(u)
    \/ \E u \in Users : useNewCallsActivities(u)
    \/ \E u \in Users : useGeneralActivities(u)

SpecDash == InitDash /\ [][NextDash]_vars

InBucket(bucket, row) ==
    CASE bucket = "urgent" -> Urgent(row)
      [] bucket = "today" -> Today(row)
      [] bucket = "week" -> Week(row)
      [] bucket = "blocked" -> Blocked(row)
      [] bucket = "new-calls" -> NewCalls(row)
      [] bucket = "general" -> General(row)

-----------------------------------------------------------------------------
(* The completion workflow across midnight *)

\* the workflow starts in the last instant of a day
InitMidnight ==
    /\ \E p \in {NoProspect, 1} :
          activities = << Row(p, IF p = NoProspect THEN "General" ELSE "Llamada",
                              0, "pending", "s1", "salesperson", 0) >>
    /\ clock = [now |-> TicksPerDay - 1, tz |-> 0, horizon |-> TicksPerDay - 1 + MaxElapsed]
    /\ variant \in {"ref", "portal", "callback"}
    /\ modal = ModalIdle
    /\ form = FormInit
    /\ edit = EditIdle
    /\ gen = GenIdle
    /\ dash = DashIdle
    /\ card = CardIdle
    /\ toast = "none"
    /\ logs = {}

NextMidnight ==
    \/ NextFlow
    \/ Tick

SpecMidnight == InitMidnight /\ [][NextMidnight]_vars

\* the next-activity form as the claim words its validity
FormFieldsInvalid(f) ==
    \/ f.activityType = NoType
    \/ f.scheduledDate = NoDate
    \/ f.scheduledDate < LocalDay(Now)
    \/ f.description.trimmed < minDescriptionLength

\* C11: a submit that fails validation (an outcome comment shorter than 10
\* characters after trimming; a next-activity form with no type, no date, a
\* date before today or a description shorter than 5 characters after
\* trimming) sends no request, changes no activity and leaves the workflow as
\* it was.
C11_InvalidSubmitIsLocal ==
    [][ /\ ( /\ HandleComplete \/ HandleNotComplete \/ HandleBlock
             /\ modal.comment.trimmed < minCommentLength )
           => UNCHANGED <<activities, logs, modal, form>>
        /\ ( /\ SubmitNext
             /\ FormFieldsInvalid(form.fields) )
           => UNCHANGED <<activities, logs, modal, form>>
      ]_vars

C13_UnblockClearsReason ==
    [][ \A a \in Ids :
           (activities[a].status = "blocked" /\ activities'[a].status = "pending")
           => activities'[a].block_reason.null ]_vars

-----------------------------------------------------------------------------
(* Properties of the bucket queries *)

\* what the urgent, today and week queries return to user u when all three
\* are evaluated now
UrgentRows(u) == { a \in FromActivities(u) : Urgent(activities[a]) }
TodayRows(u) == { a \in FromActivities(u) : Today(activities[a]) }
WeekRows(u) == { a \in FromActivities(u) : Week(activities[a]) }

\* C14: at any instant, for any user, the results of the urgent, today and
\* week bucket queries are pairwise disjoint.
C14_BucketsDisjoint ==
    \A u \in Users :
        /\ UrgentRows(u) \cap TodayRows(u) = {}
        /\ UrgentRows(u) \cap WeekRows(u) = {}
        /\ TodayRows(u) \cap WeekRows(u) = {}

\* the week query has returned activities while the table also holds an
\* activity of the today bucket for the same user
C14_Witness ==
    /\ dash.bucket = "week"
    /\ dash.rows # {}
    /\ TodayRows(dash.user) # {}
    /\ dash.rows = WeekRows(dash.user)

\* C15: whatever the new-calls bucket query returns to a user is among the
\* activities the today bucket query returns to that user on the same table
\* at the same instant.
C15_NewCallsWithinToday ==
    \A u \in Users :
        \A rows \in Limit({ a \in FromActivities(u) : NewCalls(activities[a]) },
                          NewCallsLimit) :
            rows \subseteq TodayRows(u)

\* the new-calls query has returned system calls while the today bucket
\* holds more than those
C15_Witness ==
    /\ dash.bucket = "new-calls"
    /\ dash.rows # {}
    /\ dash.rows \subseteq TodayRows(dash.user)
    /\ dash.rows # TodayRows(dash.user)

-----------------------------------------------------------------------------
(* The daily-call generation from Thursday to Sunday: the useGenerateDailyCalls *)
(* of hooks/useActivities.ts (variant "ref") and the earlier one without a   *)
(* weekday check (variant "everyday")                                         *)

Thursday == FirstDay + 3

InitWeekend ==
    /\ \E d \in Thursday..(Thursday + 3), h \in 0..1, z \in 0..MaxOffset :
          clock = [now |-> d * TicksPerDay + h, tz |-> z,
                   horizon |-> d * TicksPerDay + h + MaxElapsed]
    /\ activities = << >>
    /\ variant \in {"ref", "everyday"}
    /\ modal = ModalIdle
    /\ form = FormInit
    /\ edit = EditIdle
    /\ gen = GenIdle
    /\ dash = DashIdle
    /\ card = CardIdle
    /\ toast = "none"
    /\ logs = {}

NextWeekend ==
    \/ Tick
    \/ \E i \in Invocations : variant = "ref" /\ GenStart(i)
    \/ \E i \in Invocations : variant = "ref" /\ GenGuard(i)
    \/ \E i \in Invocations : variant = "ref" /\ GenSelect(i)
    \/ \E i \in Invocations : variant = "everyday" /\ EverydayStart(i)
    \/ \E i \in Invocations : variant = "everyday" /\ EverydayGuard(i)
    \/ \E i \in Invocations : variant = "everyday" /\ EverydaySelect(i)
    \/ \E i \in Invocations : GenInsert(i)

SpecWeekend == InitWeekend /\ [][NextWeekend]_vars

\* C16: an invocation of the generation made on a Friday, Saturday or Sunday
\* (of the browser's calendar) inserts no activity.
C16_NoCallsOnWeekend ==
    \A i \in Invocations :
        (gen[i].localDay # NoDate /\ DayOfWeek(gen[i].localDay) \in {5, 6, 0})
        => gen[i].inserted = {}

-----------------------------------------------------------------------------
(* Properties of the generation's daily limit *)

\* no two invocations made so far have overlapped: one of them had returned
\* when the other began
NonOverlapping ==
    \A i, j \in Invocations :
        (i # j /\ gen[i].pc # "idle" /\ gen[j].pc # "idle")
        => (i \in gen[j].after \/ j \in gen[i].after)

\* the system calls created on day d of the browser's calendar
SystemCallsCreatedOn(d) ==
    { a \in Ids : IsSystemCall(activities[a]) /\ LocalDay(activities[a].created_at) = d }

\* C17: as long as the invocations of the generation have not overlapped, no
\* calendar day (of the browser that runs them) has more than 3
\* system-generated Llamada activities created on it.
C17_AtMostThreePerDay ==
    NonOverlapping
    => \A a \in Ids :
          Cardinality(SystemCallsCreatedOn(LocalDay(activities[a].created_at)))
              <= MaxDailyCalls

\* C18: an invocation of the generation that overlaps no other, made on a
\* Monday to Thursday with no system call created yet that day (days of the
\* browser's calendar) and a salesperson in the table, goes on to select min(k, 3) of the k prospects
\* that are eligible, all distinct, and its insert creates exactly one
\* activity for each of them: a Llamada scheduled on the day of the
\* invocation, pending, created by system, assigned to a salesperson.
C18_GeneratesMinOfThree ==
    [][ NonOverlapping => \A i \in Invocations :
          /\ ( /\ gen[i].pc = "idle" /\ gen'[i].pc # "idle"
               /\ DayOfWeek(LocalDay(Now)) \in 1..4 )
             => gen'[i].pc = "guard"
          /\ ( /\ gen[i].pc = "guard" /\ gen'[i].pc # "guard"
               /\ SystemCallsCreatedOn(gen[i].localDay) = {}
               /\ Salespersons # {} )
             => /\ gen'[i].pc = "select"
                /\ gen'[i].salesperson \in Salespersons
          /\ ( gen[i].pc = "select" /\ gen'[i].pc # "select" )
             => /\ gen'[i].selected \subseteq EligibleProspects
                /\ Cardinality(gen'[i].selected)
                      = Min(Cardinality(EligibleProspects), MaxDailyCalls)
                /\ Cardinality(EligibleProspects) = 1 => Cardinality(gen'[i].selected) = 1
          /\ ( gen[i].pc = "insert" /\ gen'[i].outcome = "generated" )
             => /\ Len(activities') = Len(activities) + Cardinality(gen[i].selected)
                /\ SubSeq(activities', 1, Len(activities)) = activities
                /\ gen[i].selected
                      = { activities'[a].prospect_id : a \in (Len(activities) + 1)..Len(activities') }
                /\ \A a \in (Len(activities) + 1)..Len(activities') :
                      /\ activities'[a].activity_type = "Llamada"
                      /\ activities'[a].scheduled_date = gen[i].localDay
                      /\ activities'[a].status = "pending"
                      /\ activities'[a].created_by = "system"
                      /\ activities'[a].assigned_to \in Salespersons
      ]_vars

-----------------------------------------------------------------------------
(* The manager's mutations: the quick actions of the card, the edit form    *)

\* one pending call of prospect 1, due today and assigned to s1
InitManager ==
    /\ activities = << Row(1, "Llamada", FirstDay, "pending", "s1", "salesperson", 0) >>
    /\ clock = [now |-> FirstDay * TicksPerDay, tz |-> 0, horizon |-> FirstDay * TicksPerDay]
    /\ variant = "ref"
    /\ modal = ModalIdle
    /\ form = FormInit
    /\ edit = EditIdle
    /\ gen = GenIdle
    /\ dash = DashIdle
    /\ card = CardIdle
    /\ toast = "none"
    /\ logs = {}

\* the edit form is opened once; the managers pick among the salespersons,
\* move the call to tomorrow, block it with a reason
NextManager ==
    \/ \E a \in Ids : CardFetch(a)
    \/ updateDateMutation(FirstDay + 1)
    \/ markUrgentMutation
    \/ \E u \in Salespersons : handleUserSelect(u)
    \/ ReassignDismiss
    \/ confirmReassign
    \/ AskDelete
    \/ DeleteDismiss
    \/ deleteMutation
    \/ \E a \in Ids : edit = EditIdle /\ Exists(a) /\ EditOpen(a)
    \/ \E st \in {"pending", "blocked"} : EditSetStatus(st)
    \/ \E c \in LifeComments : EditTypeBlockReason(c)
    \/ \E u \in Salespersons : handleAssignedToChange(u)
    \/ EditConfirmReassign
    \/ EditCancelReassign
    \/ EditClose
    \/ EditSave

SpecManager == InitManager /\ [][NextManager]_vars

\* C19: a step that changes an activity's stored assigned_to from a holder to
\* a different user is the confirmation of the card's reassign dialog for that
\* user, or the save of an edit form in which the manager confirmed the
\* reassignment to that user; dismissing either dialog changes neither the
\* stored assigned_to nor the form's.
C19_ReassignNeedsConfirmation ==
    [][ /\ \A a \in Ids :
              ( /\ activities[a].assigned_to \in Users
                /\ activities'[a].assigned_to \in Users
                /\ activities'[a].assigned_to # activities[a].assigned_to )
              => \/ /\ card.activity = a
                    /\ card.showReassignConfirm /\ ~card'.showReassignConfirm
                    /\ card.pendingUserId = activities'[a].assigned_to
                 \/ /\ edit.open /\ edit.activity = a
                    /\ edit.confirmed = activities'[a].assigned_to
        /\ ReassignDismiss => UNCHANGED activities
        /\ EditCancelReassign => (UNCHANGED activities /\ edit'.assignedTo = edit.assignedTo)
      ]_vars

\* an audit entry recording that column col of activity a went from from to to
Records(l, a, col, from, to) ==
    /\ l.entity_id = a
    /\ IF "quick_action" \in DOMAIN l
       THEN /\ col = (IF l.quick_action = "reassign" THEN "assigned_to" ELSE "scheduled_date")
            /\ l.from = from /\ l.to = to
       ELSE IF "changes" \in DOMAIN l
       THEN l.changes[col] = <<from, to>>
       ELSE FALSE

\* C20: whenever a manager mutation changes a stored activity, activity_logs
\* holds an entry for that activity: for each of activity_type,
\* scheduled_date, status and assigned_to that changed, an entry with the
\* value before and the value after; for a delete, an entry of the deletion.
C20_MutationsAreLogged ==
    [][ \A a \in Ids :
          activities'[a] # activities[a]
          => IF activities'[a] = Deleted
             THEN \E l \in logs' : l.entity_id = a /\ l.action_type = "delete"
             ELSE \A col \in {"activity_type", "scheduled_date", "status", "assigned_to"} :
                     activities'[a][col] # activities[a][col]
                     => \E l \in logs' :
                           Records(l, a, col, activities[a][col], activities'[a][col])
      ]_vars

-----------------------------------------------------------------------------
(* The audit trigger with the rows of activity_logs counted: here logs is   *)
(* the bag of the rows, an entry written twice is held twice                *)

\* an INSERT into activities, the trigger function run for the new row
InsertStatement(row) ==
    /\ Len(activities) < MaxActivities
    /\ BagCardinality(logs) < MaxAudited
    /\ activities' = Insert(activities, row)
    /\ logs' = logs (+) SetToBag(log_activity_change("INSERT", activities'[Len(activities')],
                                                     activities'[Len(activities')],
                                                     Len(activities')))
    /\ UNCHANGED <<clock, variant, modal, form, edit, gen, dash, toast, card>>

\* an UPDATE of one row of activities, the trigger function run with OLD and NEW
UpdateStatement(a, st, d) ==
    /\ a \in Ids
    /\ BagCardinality(logs) < MaxAudited
    /\ activities' = [activities EXCEPT ![a] = [@ EXCEPT !.status = st, !.scheduled_date = d]]
    /\ logs' = logs (+) SetToBag(log_activity_change("UPDATE", activities[a], activities'[a], a))
    /\ UNCHANGED <<clock, variant, modal, form, edit, gen, dash, toast, card>>

InitTrigger ==
    /\ activities = << >>
    /\ clock = [now |-> 0, tz |-> 0, horizon |-> 0]
    /\ variant = "ref"
    /\ modal = ModalIdle
    /\ form = FormInit
    /\ edit = EditIdle
    /\ gen = GenIdle
    /\ dash = DashIdle
    /\ card = CardIdle
    /\ toast = "none"
    /\ logs = EmptyBag

NextTrigger ==
    \/ \E u \in Salespersons :
          InsertStatement(Row(1, "Llamada", 0, "pending", u, "salesperson", 0))
    \/ \E a \in Ids, st \in ActivityStatus, d \in 0..1 : UpdateStatement(a, st, d)

SpecTrigger == InitTrigger /\ [][NextTrigger]_vars

\* the rows of action_type action for activity a that a step adds to activity_logs
Added(action, a) == CopiesIn(LogEntry(action, a), logs') - CopiesIn(LogEntry(action, a), logs)

\* C21: each insert of an activity adds exactly one 'create' entry for it,
\* each update that moves its status from non-completed to completed exactly
\* one 'complete' entry, each update that moves it from non-blocked to blocked
\* exactly one 'block' entry; no other statement adds such an entry.
C21_OneEntryPerTransition ==
    [][ \A a \in 1..Len(activities') :
          IF a > Len(activities)
          THEN /\ Added("create", a) = 1
               /\ Added("complete", a) = 0 /\ Added("block", a) = 0
          ELSE /\ Added("create", a) = 0
               /\ Added("complete", a)
                     = (IF activities'[a].status = "completed" /\ activities[a].status # "completed"
                        THEN 1 ELSE 0)
               /\ Added("block", a)
                     = (IF activities'[a].status = "blocked" /\ activities[a].status # "blocked"
                        THEN 1 ELSE 0)
      ]_vars

\* an activity was inserted, completed twice and blocked in between
C21_Witness ==
    \E a \in Ids :
        /\ CopiesIn(LogEntry("create", a), logs) = 1
        /\ CopiesIn(LogEntry("complete", a), logs) = 2
        /\ CopiesIn(LogEntry("block", a), logs) = 1

-----------------------------------------------------------------------------
(* The audit log under every operation that writes it: the manager's        *)
(* mutations with the trigger, sign-in and sign-out                         *)

NextAudit ==
    \/ NextManager
    \/ signIn("s1")
    \/ signOut

SpecAudit == InitManager /\ [][NextAudit]_vars

\* C22: no step modifies or removes a row of activity_logs: every row the
\* table holds before a step is still there after it.
C22_LogsAppendOnly == [][ logs \subseteq logs' ]_vars

\* the activity was deleted after an update of it was logged, a user signed
\* out and in again, and all those entries are in the table
C22_Witness ==
    /\ \E a \in Ids : activities[a] = Deleted /\ \E l \in logs : l.entity_id = a
    /\ SessionLog("logout", "s1") \in logs
    /\ SessionLog("login", "s1") \in logs

-----------------------------------------------------------------------------
(* completed_at of the completed activities *)

\* C23: every stored activity whose status is completed has a non-null
\* completed_at.
C23_CompletedHasTimestamp ==
    \A a \in Ids :
        activities[a].status = "completed" => activities[a].completed_at # NoTime

\* the edit form, opened on an activity that was not completed, has stored
\* it as completed
C23_Witness ==
    /\ ~edit.open /\ Exists(edit.activity)
    /\ edit.status = "completed" /\ edit.original.status # "completed"
    /\ activities[edit.activity].status = "completed"
    /\ activities[edit.activity].completed_at # NoTime
    /\ EditLog(edit) \in logs

-----------------------------------------------------------------------------
(* The next-activity modal and the completion it follows *)

\* C24: whenever the mandatory next-activity modal is open, the activity
\* whose completion opened it is stored with status completed and no
\* completion update of it is in flight.
C24_NextModalAfterCompletion ==
    NextModalOpen(modal)
    => /\ activities[modal.activity].status = "completed"
       /\ ~(modal.mutation = "complete" /\ modal.request \in {"sent", "ok", "error"})

-----------------------------------------------------------------------------
(* The not-complete outcome *)

\* C25: when the store applies the update of a not-complete outcome, the
\* stored activity changes in its completion_comment only, which becomes the
\* comment submitted: a pending activity is pending afterwards, every other
\* column and every other row is unchanged; from the submission until the
\* handler has settled the next-activity modal is not open.
C25_NotCompleteKeepsPending ==
    [][ /\ (modal.mutation = "not-complete" /\ modal.request = "sent" /\ modal'.request = "ok")
           => /\ activities[modal.activity].status = "pending"
                    => activities'[modal.activity].status = "pending"
              /\ activities'[modal.activity].completion_comment = modal.payload
              /\ validateComment(modal.payload)
              /\ activities' = [activities EXCEPT ![modal.activity] =
                                   [@ EXCEPT !.completion_comment = modal.payload]]
        /\ (modal.mutation = "not-complete" \/ modal'.mutation = "not-complete")
           => ~NextModalOpen(modal')
      ]_vars

\* a not-complete outcome was stored and its modal has closed
C25_Witness ==
    /\ modal.activity # 0
    /\ toast = "success"
    /\ activities[modal.activity].status = "pending"
    /\ ~activities[modal.activity].completion_comment.null
    /\ modal.mutation = "none"
    /\ WorkflowClosed(modal)

-----------------------------------------------------------------------------
(* What a save of the edit form leaves in the table *)

\* C26: after a successful save of the edit form, an activity stored as
\* blocked has a block_reason and an activity stored as completed has a
\* completion_comment and a completed_at, whatever happened to the activity
\* between the opening of the form and the save.
C26_SaveStoresReasons ==
    [][ (EditSave /\ ~edit'.open /\ Exists(edit.activity))
        => /\ activities'[edit.activity].status = "blocked"
              => ~activities'[edit.activity].block_reason.null
           /\ activities'[edit.activity].status = "completed"
              => /\ ~activities'[edit.activity].completion_comment.null
                 /\ activities'[edit.activity].completed_at # NoTime
      ]_vars

-----------------------------------------------------------------------------
(* The daily calls beside the dashboard's unblock button *)

NextCalls ==
    \/ NextDaily
    \/ \E a \in Ids : Unblock(a)

SpecCalls == InitDaily /\ [][NextCalls]_vars

\* the pending system-generated calls of prospect x
PendingSystemCalls(x) ==
    { a \in RowsOf(x) : IsSystemCall(activities[a]) /\ activities[a].status = "pending" }

\* C27: when no two invocations of the generation overlap, no prospect has
\* two pending system-generated Llamada activities at the same time.
C27_OnePendingSystemCall ==
    NonOverlapping => \A x \in Prospeccion : Cardinality(PendingSystemCalls(x)) <= 1

-----------------------------------------------------------------------------
(* The urgent, today and week buckets together *)

\* in how many of the urgent, today and week results of user u activity a is
BucketsHolding(u, a) ==
    (IF a \in UrgentRows(u) THEN 1 ELSE 0)
    + (IF a \in TodayRows(u) THEN 1 ELSE 0)
    + (IF a \in WeekRows(u) THEN 1 ELSE 0)

\* C28: at any instant, for any user, every pending activity the user may
\* see that has a prospect and a scheduled_date no later than 7 days after
\* today (the UTC date of the queries; the browser's local date is never
\* later) is in the result of exactly one of the urgent, today and week
\* queries, and an activity without a prospect is in none of the three.
C28_BucketsCoverPending ==
    \A u \in Users :
        \A a \in FromActivities(u) :
            /\ ( /\ activities[a].status = "pending"
                 /\ activities[a].prospect_id # NoProspect
                 /\ activities[a].scheduled_date <= UtcDay(Now) + WeekWindowDays )
               => BucketsHolding(u, a) = 1
            /\ activities[a].prospect_id = NoProspect => BucketsHolding(u, a) = 0

\* the week query has returned an activity due in exactly 7 days while the
\* table also holds a pending activity without a prospect
C28_Witness ==
    /\ dash.bucket = "week"
    /\ \E a \in dash.rows : activities[a].scheduled_date = UtcDay(Now) + WeekWindowDays
    /\ \E b \in FromActivities(dash.user) : General(activities[b])

-----------------------------------------------------------------------------
(* The two dialogs of the completion workflow *)

\* C29: the completion modal and the mandatory next-activity modal are never
\* both open: while the next-activity modal is open the completion modal is
\* hidden.
C29_OneModalVisible == ~(MainDialogOpen(modal) /\ NextModalOpen(modal))

-----------------------------------------------------------------------------
(* The requests of one completion modal *)

\* C30: a complete, not-complete or block request is sent from the completion
\* modal only when no request of the modal is pending: none that the store
\* has not answered and none whose handler, the wait of the hook's success
\* handler included, has not settled.
C30_OneRequestInFlight ==
    [][ (modal'.request = "sent" /\ modal.request # "sent")
        => /\ modal.request = "none"
           /\ modal.mutation = "none"
           /\ modal'.mutation \in {"complete", "not-complete", "block"}
           /\ modal'.activity = modal.activity
      ]_vars

\* the completion modal is open on its comment form, with a valid comment,
\* while the store has answered the completion and the handler has not settled
C30_Witness ==
    /\ MainDialogOpen(modal)
    /\ modal.modalState = "complete"
    /\ validateComment(modal.comment)
    /\ modal.mutation = "complete"
    /\ modal.request = "ok"

====
